---- MODULE Spec2Model ----
(***************************************************************************)
(* A review session of ash (brnv/ash): fetch the pull request's diff with  *)
(* its comments, render it to a temporary file, let an external editor     *)
(* change the file, read it back, compare the two reviews and replay the   *)
(* resulting changes against the remote service.                           *)
(*                                                                         *)
(* review and editReviewInEditor are those of main.go; GetReview,          *)
(* ApplyChange and the three REST calls are those of PullRequest.          *)
(* Review (WriteReview, ReadReview, Compare), AddUsageComment,             *)
(* AddVimModeline and GetActivities follow the specification, sections     *)
(* 4.1, 4.2, 4.3 and 6.                                                    *)
(***************************************************************************)
EXTENDS Integers, Sequences, FiniteSets, TLC

VARIABLES
    pc,          \* position of review() / the process exit it ended in
    path,        \* the <file-name> argument ("" = overview)
    response,    \* what the remote service answers to the fetch
    review,      \* the *Review held by review() (original model)
    tmpFile,     \* the temporary file: created, exists, open, content
    launched,    \* the editor process has been started
    nedits,      \* edits the user has made in the editor so far
    editorErr,   \* editorCmd.Run() returned an error
    savedText,   \* content of the file when the editor exited
    edited,      \* the review read back from the file
    changes,     \* []ReviewChange returned by Compare
    idx,         \* number of loop iterations of `for i, change := range changes` done
    attempts,    \* the remote calls issued so far, with their outcome
    critical,    \* logger.Critical reports: indices of the changes that failed
    remote       \* the comments as stored by the remote service

vars == <<pc, path, response, review, tmpFile, launched, nedits, editorErr,
          savedText, edited, changes, idx, attempts, critical, remote>>

(***************************************************************************)
(* Bounds of the model.                                                    *)
(***************************************************************************)
\* number of comments the remote service may hold on the reviewed file
NumComments == 2
\* number of edits the user makes before leaving the editor
MaxEdits == 2

(***************************************************************************)
(* Values.                                                                 *)
(***************************************************************************)
Nil == "nil"
\* an annotation without remote identity (newly authored)
NoId == "0"

IdStr(n) == <<"1", "2", "3", "4">>[n]
VersionStr(n) == <<"5", "6", "7", "8">>[n]
TextOf(n) == <<"fix this", "nit", "ok", "typo">>[n]

\* texts the user types in the editor
NewText == "new"
EditedText == "looks good"

\* the line a comment-less diff shows: two hunks, three lines
DiffShape == << << [Type |-> " ", Text |-> "a"], [Type |-> "+", Text |-> "b"] >>,
                << [Type |-> "-", Text |-> "c"] >> >>

\* the three line slots of DiffShape, as <<hunk, line>>
Slots == << <<1, 1>>, <<1, 2>>, <<2, 1>> >>

RECURSIVE Concat(_)
\* concatenation of a sequence of sequences
Concat(ss) == IF Len(ss) = 0 THEN <<>> ELSE Head(ss) \o Concat(Tail(ss))

\* sequence reversal
Reverse(s) == [k \in 1..Len(s) |-> s[Len(s) + 1 - k]]

(***************************************************************************)
(* The remote service's answer to the fetch (the JSON the REST client      *)
(* decodes into godiff.Changeset): every line names the ids of its         *)
(* comments, the diff holds the comments themselves.                       *)
(***************************************************************************)
\* comment number n as the remote service stores it
ServerComment(n) == [Id |-> IdStr(n), Version |-> VersionStr(n), Text |-> TextOf(n)]

\* index of the line slot <<h, l>> of DiffShape
SlotOf(h, l) == CHOOSE k \in 1..Len(Slots) : Slots[k] = <<h, l>>

\* the ids of the comments placed on slot k, ascending or (rev) descending
CommentIdsAt(place, rev, k) ==
    LET nums == SelectSeq([n \in 1..NumComments |-> n], LAMBDA n : place[n] = k)
        ids  == [j \in 1..Len(nums) |-> IdStr(nums[j])]
    IN  IF rev THEN Reverse(ids) ELSE ids

\* the answer for a file of the pull request whose comment n sits on slot
\* place[n] (0: the comment does not exist)
ResponseFor(place, rev) ==
    LET present == SelectSeq([n \in 1..NumComments |-> n], LAMBDA n : place[n] # 0)
    IN  [err   |-> FALSE,
         Diffs |-> << [Hunks |-> [h \in 1..Len(DiffShape) |->
                                   [l \in 1..Len(DiffShape[h]) |->
                                     [Type       |-> DiffShape[h][l].Type,
                                      Text       |-> DiffShape[h][l].Text,
                                      CommentIds |-> CommentIdsAt(place, rev, SlotOf(h, l))]]],
                       LineComments |-> Reverse([j \in 1..Len(present) |->
                                                   ServerComment(present[j])])] >>]

\* the request failed (transport or HTTP error)
FailedResponse == [err |-> TRUE, Diffs |-> <<>>]
\* the path is not part of the pull request: no diffs
EmptyResponse == [err |-> FALSE, Diffs |-> <<>>]

Responses ==
    {FailedResponse, EmptyResponse} \cup
    {ResponseFor(place, rev) : place \in [1..NumComments -> 0..Len(Slots)],
                               rev \in BOOLEAN}

\* the answers to the fetch of the overview (path = ""): one shape suffices
OverviewResponses ==
    {FailedResponse, EmptyResponse, ResponseFor([n \in 1..NumComments |-> 1], FALSE)}

Paths == {"", "main.go"}

(***************************************************************************)
(* PullRequest.GetReview: decode the changeset, then attach to every line  *)
(* the comments its CommentIds name, in CommentIds order.                  *)
(***************************************************************************)
\* the inner loops of GetReview for one line: for each id, each matching comment
AttachComments(ids, lineComments) ==
    Concat([j \in 1..Len(ids) |->
              SelectSeq(lineComments, LAMBDA c : c.Id = ids[j])])

GetReview(resp, p) ==
    IF resp.err
    THEN [err |-> TRUE, review |-> Nil]
    ELSE [err |-> FALSE,
          review |->
            [Path  |-> p,
             Note  |-> <<>>,
             Diffs |-> [d \in 1..Len(resp.Diffs) |->
                         [Hunks |-> [h \in 1..Len(resp.Diffs[d].Hunks) |->
                            [l \in 1..Len(resp.Diffs[d].Hunks[h]) |->
                               [Type     |-> resp.Diffs[d].Hunks[h][l].Type,
                                Text     |-> resp.Diffs[d].Hunks[h][l].Text,
                                Comments |-> AttachComments(
                                               resp.Diffs[d].Hunks[h][l].CommentIds,
                                               resp.Diffs[d].LineComments)]]]]]]]

\* PullRequest.GetActivities (the overview, path = ""): the same contract as the
\* fetch of a file, fetchDiff(path) -> DiffModel | NotFoundError
GetActivities(resp) == GetReview(resp, "")

(***************************************************************************)
(* Traversals of a review, in document order.                              *)
(***************************************************************************)
\* every line with its position <<diff, hunk, line>> (Changeset.ForEachLine)
LinesOf(r) ==
    Concat([d \in 1..Len(r.Diffs) |->
      Concat([h \in 1..Len(r.Diffs[d].Hunks) |->
        [l \in 1..Len(r.Diffs[d].Hunks[h]) |->
           [pos |-> <<d, h, l>>, line |-> r.Diffs[d].Hunks[h][l]]]])])

\* every annotation with the position of its line and its rank on that line
CommentsOf(r) ==
    LET ls == LinesOf(r)
    IN  Concat([k \in 1..Len(ls) |->
          [j \in 1..Len(ls[k].line.Comments) |->
             [pos |-> ls[k].pos, rank |-> j, comment |-> ls[k].line.Comments[j]]]])

(***************************************************************************)
(* The text document (specification 4.1, 6): a sequence of text lines,     *)
(* each a sequence of tokens.  The first token is the line's marker.       *)
(***************************************************************************)
HunkMarker == "@@"
CommentMarker == "#"
NoteMarker == "###"
LineMarkers == {" ", "+", "-"}

\* AddUsageComment / AddVimModeline: a note and a modeline put at the head of
\* the document; neither is a diff line or an annotation
AddUsageComment(r) == [r EXCEPT !.Note = @ \o << <<NoteMarker, "usage">> >>]
AddVimModeline(r) == [r EXCEPT !.Note = @ \o << <<NoteMarker, "vim: ft=diff">> >>]

\* one annotation as a comment line; the identity and version token are
\* embedded as a bracketed tag when the annotation exists remotely
RenderComment(c) ==
    IF c.Id = NoId
    THEN <<CommentMarker, c.Text>>
    ELSE <<CommentMarker, "[", c.Id, "@", c.Version, "]", c.Text>>

\* a diff line verbatim, followed by one comment line per annotation
RenderLine(line) ==
    << <<line.Type, line.Text>> >> \o
    [j \in 1..Len(line.Comments) |-> RenderComment(line.Comments[j])]

RenderHunk(hunk) ==
    << <<HunkMarker>> >> \o Concat([l \in 1..Len(hunk) |-> RenderLine(hunk[l])])

\* WriteReview: render(DiffModel) -> text
WriteReview(r) ==
    r.Note \o
    Concat([d \in 1..Len(r.Diffs) |->
      Concat([h \in 1..Len(r.Diffs[d].Hunks) |-> RenderHunk(r.Diffs[d].Hunks[h])])])

\* a comment line carries an embedded identity tag
HasTag(t) == Len(t) = 7 /\ t[2] = "[" /\ t[4] = "@" /\ t[6] = "]"

\* the annotation a comment line stands for
ParseComment(t) ==
    IF HasTag(t)
    THEN [Id |-> t[3], Version |-> t[5], Text |-> t[7]]
    ELSE [Id |-> NoId, Version |-> NoId, Text |-> IF Len(t) >= 2 THEN t[2] ELSE ""]

\* one step of the parser's state machine; st = [hunks, warnings]
ParseStep(st, t) ==
    LET n == Len(st.hunks)
    IN  CASE Len(t) = 0 -> st
          [] t[1] = HunkMarker ->
               [st EXCEPT !.hunks = Append(@, <<>>)]
          [] t[1] \in LineMarkers /\ Len(t) = 2 /\ n > 0 ->
               [st EXCEPT !.hunks[n] =
                    Append(@, [Type |-> t[1], Text |-> t[2], Comments |-> <<>>])]
          [] t[1] = CommentMarker ->
               IF n > 0 /\ Len(st.hunks[n]) > 0
               THEN [st EXCEPT !.hunks[n][Len(st.hunks[n])].Comments =
                         Append(@, ParseComment(t))]
               ELSE [st EXCEPT !.warnings = @ + 1]
          [] OTHER -> st

RECURSIVE ParseLines(_, _)
ParseLines(st, text) ==
    IF Len(text) = 0 THEN st ELSE ParseLines(ParseStep(st, Head(text)), Tail(text))

\* ReadReview: parse(text) -> DiffModel, MalformedDocument when the text has
\* no recognizable hunk
ReadReview(text) ==
    LET st == ParseLines([hunks |-> <<>>, warnings |-> 0], text)
    IN  IF Len(st.hunks) = 0
        THEN [err |-> TRUE, review |-> Nil, warnings |-> st.warnings]
        ELSE [err |-> FALSE,
              review |-> [Path |-> "", Note |-> <<>>,
                          Diffs |-> << [Hunks |-> st.hunks] >>],
              warnings |-> st.warnings]

(***************************************************************************)
(* Review.Compare (specification 4.3): the edited annotations in document  *)
(* order, matched by identity, then the original annotations that are      *)
(* gone.  A ReviewChange is a payload map; its keys tell the kind.         *)
(***************************************************************************)
\* the changes one edited annotation e yields against the original ones
ChangeOfEdited(orig, e) ==
    IF e.comment.Id = NoId
    THEN << [text |-> e.comment.Text, anchor |-> e.pos] >>
    ELSE LET same == SelectSeq(orig, LAMBDA o : o.comment.Id = e.comment.Id)
         IN  IF Len(same) > 0 /\ same[1].comment.Text # e.comment.Text
             THEN << [id      |-> e.comment.Id,
                      version |-> same[1].comment.Version,
                      text    |-> e.comment.Text] >>
             ELSE <<>>

\* the change one original annotation o yields: a removal when it is gone
ChangeOfOriginal(o, edit) ==
    IF \E k \in 1..Len(edit) : edit[k].comment.Id = o.comment.Id
    THEN <<>>
    ELSE << [id |-> o.comment.Id, version |-> o.comment.Version] >>

Compare(current, another) ==
    LET orig == CommentsOf(current)
        edit == CommentsOf(another)
    IN  Concat([k \in 1..Len(edit) |-> ChangeOfEdited(orig, edit[k])]) \o
        Concat([k \in 1..Len(orig) |-> ChangeOfOriginal(orig[k], edit)])

(***************************************************************************)
(* PullRequest.ApplyChange and the three REST calls.                       *)
(***************************************************************************)
\* fmt.Sprint(change[key])
Sprint(change, key) == IF key \in DOMAIN change THEN change[key] ELSE "<nil>"

addComment(change) ==
    [method |-> "POST", resource |-> "comments", body |-> change]

modifyComment(change) ==
    [method |-> "PUT", resource |-> "comments", id |-> Sprint(change, "id"),
     query |-> [version |-> Sprint(change, "version")], body |-> change]

removeComment(change) ==
    [method |-> "DELETE", resource |-> "comments", id |-> Sprint(change, "id"),
     query |-> [version |-> Sprint(change, "version")]]

\* ApplyChange probing "text" before "id"
ApplyChange_TextFirst(change) ==
    CASE "text" \in DOMAIN change -> modifyComment(change)
      [] "text" \notin DOMAIN change /\ "id" \in DOMAIN change -> removeComment(change)
      [] OTHER -> addComment(change)

\* the request ApplyChange issues; the panic after the if/else is the last arm
ApplyChange(change) ==
    CASE "id" \in DOMAIN change /\ "text" \in DOMAIN change -> modifyComment(change)
      [] "id" \in DOMAIN change /\ "text" \notin DOMAIN change -> removeComment(change)
      [] "id" \notin DOMAIN change -> addComment(change)
      [] OTHER -> [method |-> "panic"]

\* the remote service's comments after it has carried out a request
RemoteApply(store, req) ==
    CASE req.method = "POST" ->
           Append(store, [Id |-> "new", Text |-> req.body.text])
      [] req.method = "PUT" ->
           [k \in 1..Len(store) |->
              IF store[k].Id = req.id THEN [store[k] EXCEPT !.Text = req.body.text]
                                      ELSE store[k]]
      [] req.method = "DELETE" ->
           SelectSeq(store, LAMBDA c : c.Id # req.id)
      [] OTHER -> store

\* the comments the remote service holds when it answers the fetch
InitialRemote(resp) ==
    Concat([d \in 1..Len(resp.Diffs) |->
      [k \in 1..Len(resp.Diffs[d].LineComments) |->
         [Id   |-> resp.Diffs[d].LineComments[k].Id,
          Text |-> resp.Diffs[d].LineComments[k].Text]]])

(***************************************************************************)
(* What the user may do to the file in the editor: remove a line, add a    *)
(* comment line, change the text of a comment line.  The usage note at the *)
(* head of the file is left alone.                                         *)
(***************************************************************************)
RemoveAt(doc, k) == SubSeq(doc, 1, k - 1) \o SubSeq(doc, k + 1, Len(doc))
InsertAfter(doc, k, t) == SubSeq(doc, 1, k) \o <<t>> \o SubSeq(doc, k + 1, Len(doc))
Retext(doc, k, text) == [doc EXCEPT ![k] = [@ EXCEPT ![Len(@)] = text]]

\* number of note lines at the head of the document
NoteLen(doc) == Cardinality({k \in 1..Len(doc) : doc[k][1] = NoteMarker})

Edits(doc) ==
    {RemoveAt(doc, k) : k \in (NoteLen(doc) + 1)..Len(doc)} \cup
    {InsertAfter(doc, k, <<CommentMarker, NewText>>) : k \in NoteLen(doc)..Len(doc)} \cup
    {Retext(doc, k, EditedText) :
        k \in {j \in 1..Len(doc) : doc[j][1] = CommentMarker /\ Len(doc[j]) >= 2}}

(***************************************************************************)
(* The session: review() of src/main.go.                                   *)
(***************************************************************************)
\* NotFound without the check of line 396
NotFound_Never(r) == FALSE

\* line 396: the changeset holds no diff
NotFound(r) == Len(r.Diffs) = 0

\* FatalExit as if the exit ran a cleanup that closes and removes the file
FatalExit_RemovesFile(file) == [file EXCEPT !.open = FALSE, !.exists = FALSE]

\* logger.Fatal: the message, then os.Exit(1); no deferred call runs and the
\* temporary file stays as it is
FatalExit(file) == file

\* AfterEditor with the error of editorCmd.Run() ignored
AfterEditor_IgnoreError(failed) == "ran"

\* lines 317-320: where review() goes once editorCmd.Run() has returned
AfterEditor(failed) == IF failed THEN "fatal_editor" ELSE "ran"

\* ReadBackText without the Seek: the read starts at the end of the file
ReadBackText_NoSeek(file) == <<>>

\* lines 322-326: Sync, Seek to the start, and the text ReadReview then reads
ReadBackText(file) == file.content

\* CompareReviews with receiver and argument exchanged
CompareReviews_Swapped(reviewToEdit, editedReview) == Compare(editedReview, reviewToEdit)

\* lines 331-332: reviewToEdit.Compare(editedReview)
CompareReviews(reviewToEdit, editedReview) == Compare(reviewToEdit, editedReview)

NoFile == [created |-> FALSE, exists |-> FALSE, open |-> FALSE, content |-> <<>>]

Init ==
    /\ pc = "start"
    /\ path \in Paths
    /\ response \in (IF path = "" THEN OverviewResponses ELSE Responses)
    /\ review = Nil
    /\ tmpFile = NoFile
    /\ launched = FALSE
    /\ nedits = 0
    /\ editorErr = FALSE
    /\ savedText = <<>>
    /\ edited = Nil
    /\ changes = <<>>
    /\ idx = 0
    /\ attempts = <<>>
    /\ critical = <<>>
    /\ remote = InitialRemote(response)

\* lines 384-399: download the review; a failed fetch is fatal, a changeset
\* without diffs ends the session with exit status 1
Fetch ==
    /\ pc = "start"
    /\ LET r == IF path = "" THEN GetActivities(response) ELSE GetReview(response, path)
       IN  IF r.err
           THEN pc' = "fatal_fetch" /\ UNCHANGED review
           ELSE /\ review' = r.review
                /\ pc' = IF NotFound(r.review) THEN "exit_not_found" ELSE "fetched"
    /\ UNCHANGED <<path, response, tmpFile, launched, nedits, editorErr, savedText,
                   edited, changes, idx, attempts, critical, remote>>

\* line 401 and editReviewInEditor lines 302-317: create the temporary file,
\* write the review with its usage note into it and start the editor.  The
\* error of ioutil.TempFile is not looked at: a nil file panics at its first use
OpenEditor ==
    /\ pc = "fetched"
    /\ \E created \in BOOLEAN :
         IF created
         THEN LET r == AddVimModeline(AddUsageComment(review))
              IN  /\ review' = r
                  /\ tmpFile' = [created |-> TRUE, exists |-> TRUE, open |-> TRUE,
                                 content |-> WriteReview(r)]
                  /\ launched' = TRUE
                  /\ pc' = "editing"
         ELSE /\ pc' = "panic"
              /\ UNCHANGED <<review, tmpFile, launched>>
    /\ UNCHANGED <<path, response, nedits, editorErr, savedText, edited, changes,
                   idx, attempts, critical, remote>>

\* the user changes the file while review() waits in editorCmd.Run()
EditorEdit ==
    /\ pc = "editing"
    /\ nedits < MaxEdits
    /\ \E doc \in Edits(tmpFile.content) :
         tmpFile' = [tmpFile EXCEPT !.content = doc]
    /\ nedits' = nedits + 1
    /\ UNCHANGED <<pc, path, response, review, launched, editorErr, savedText,
                   edited, changes, idx, attempts, critical, remote>>

\* lines 317-320: editorCmd.Run() returns; an error is fatal
EditorReturns ==
    /\ pc = "editing"
    /\ \E failed \in BOOLEAN :
         /\ editorErr' = failed
         /\ pc' = AfterEditor(failed)
         /\ tmpFile' = IF failed THEN FatalExit(tmpFile) ELSE tmpFile
    /\ savedText' = tmpFile.content
    /\ UNCHANGED <<path, response, review, launched, nedits, edited,
                   changes, idx, attempts, critical, remote>>

\* lines 322-332 and 409-416: read the file back, compare; a read error is
\* fatal, an empty change list ends the session with exit status 2
ReadBack ==
    /\ pc = "ran"
    /\ LET r == ReadReview(ReadBackText(tmpFile))
       IN  IF r.err
           THEN /\ pc' = "fatal_read"
                /\ tmpFile' = FatalExit(tmpFile)
                /\ UNCHANGED <<edited, changes>>
           ELSE /\ edited' = r.review
                /\ changes' = CompareReviews(review, r.review)
                /\ pc' = IF Len(CompareReviews(review, r.review)) = 0
                         THEN "exit_no_changes" ELSE "applying"
                /\ UNCHANGED tmpFile
    /\ UNCHANGED <<path, response, review, launched, nedits, editorErr,
                   savedText, idx, attempts, critical, remote>>

\* NextChange ranging over the changes from the last to the first
NextChange_Reversed == changes[Len(changes) - idx]

\* line 420: the change of the current iteration of `range changes`
NextChange == changes[idx + 1]

\* LoopNext leaving the loop at the first error
LoopNext_Break(ok) == IF ok THEN idx + 1 ELSE Len(changes)

\* lines 420-427: the loop index after an iteration; an error of ApplyChange is
\* logged and does not leave the loop
LoopNext(ok) == idx + 1

\* lines 420-427: one iteration of the loop over the changes; a failed change
\* is logged and the loop goes on
ApplyStep ==
    /\ pc = "applying"
    /\ idx < Len(changes)
    /\ LET change == NextChange
           req    == ApplyChange(change)
       IN  IF req.method = "panic"
           THEN /\ pc' = "panic"
                /\ UNCHANGED <<idx, attempts, critical, remote>>
           ELSE \E ok \in BOOLEAN :
                  /\ attempts' = Append(attempts,
                                        [change |-> change, req |-> req, ok |-> ok])
                  /\ remote' = IF ok THEN RemoteApply(remote, req) ELSE remote
                  /\ critical' = IF ok THEN critical ELSE Append(critical, idx + 1)
                  /\ idx' = LoopNext(ok)
                  /\ pc' = pc
    /\ UNCHANGED <<path, response, review, tmpFile, launched, nedits, editorErr,
                   savedText, edited, changes>>

\* lines 429-431: close and remove the temporary file
RemoveTmpFile ==
    /\ pc = "applying"
    /\ idx = Len(changes)
    /\ tmpFile' = [tmpFile EXCEPT !.open = FALSE, !.exists = FALSE]
    /\ pc' = "done"
    /\ UNCHANGED <<path, response, review, launched, nedits, editorErr, savedText,
                   edited, changes, idx, attempts, critical, remote>>

Next ==
    \/ Fetch
    \/ OpenEditor
    \/ EditorEdit
    \/ EditorReturns
    \/ ReadBack
    \/ ApplyStep
    \/ RemoveTmpFile

Spec == Init /\ [][Next]_vars

(***************************************************************************)
(* Vocabulary of the properties.                                           *)
(***************************************************************************)
IsCreate(c) == "id" \notin DOMAIN c
IsUpdate(c) == "id" \in DOMAIN c /\ "text" \in DOMAIN c
IsDelete(c) == "id" \in DOMAIN c /\ "text" \notin DOMAIN c

\* Compare has just returned: `edited` and `changes` are those of this session
JustCompared == pc = "exit_no_changes" \/ (pc = "applying" /\ idx = 0)

\* ReadReview has just returned, with or without error
JustRead == pc = "fatal_read" \/ JustCompared

\* the indices of the attempts that returned an error
FailedIdx(att) == SelectSeq([k \in 1..Len(att) |-> k], LAMBDA k : ~att[k].ok)

RECURSIVE Replay(_, _)
\* the remote comments after the successful ones among the attempts, in order
Replay(store, att) ==
    IF Len(att) = 0 THEN store
    ELSE Replay(IF Head(att).ok THEN RemoteApply(store, Head(att).req) ELSE store,
                Tail(att))

\* lexicographic order of line positions <<diff, hunk, line>>
PosLeq(a, b) ==
    \/ a[1] < b[1]
    \/ a[1] = b[1] /\ a[2] < b[2]
    \/ a[1] = b[1] /\ a[2] = b[2] /\ a[3] <= b[3]

\* an original annotation whose identity is absent from the edited model
Gone(o, edit) == \A k \in 1..Len(edit) : edit[k].comment.Id # o.comment.Id

\* an edited annotation whose identity is in the original with another text
Changed(e, orig) ==
    /\ e.comment.Id # NoId
    /\ \E k \in 1..Len(orig) : /\ orig[k].comment.Id = e.comment.Id
                               /\ orig[k].comment.Text # e.comment.Text

\* the version token the original holds for identity id
OriginalVersion(orig, id) ==
    LET same == SelectSeq(orig, LAMBDA o : o.comment.Id = id)
    IN  IF Len(same) > 0 THEN same[1].comment.Version ELSE Nil

\* the document position a change refers to
PosOfChange(c, orig, edit) ==
    IF IsCreate(c) THEN c.anchor
    ELSE IF IsUpdate(c)
         THEN SelectSeq(edit, LAMBDA e : e.comment.Id = c.id)[1].pos
         ELSE SelectSeq(orig, LAMBDA o : o.comment.Id = c.id)[1].pos

\* the annotation of the original (Delete) or edited (Update) document that
\* carries identity id
AnnotationOf(doc, id) == SelectSeq(doc, LAMBDA x : x.comment.Id = id)[1]

\* a change refers to an annotation of its document: a Create to an
\* annotation without identity on its anchor line of the edited document,
\* an Update to an identity of the edited document, a Delete to an identity
\* of the original document
RefersTo(c, orig, edit) ==
    IF IsCreate(c)
    THEN \E k \in 1..Len(edit) : /\ edit[k].comment.Id = NoId
                                 /\ edit[k].pos = c.anchor
                                 /\ edit[k].comment.Text = c.text
    ELSE IF IsUpdate(c)
         THEN \E k \in 1..Len(edit) : edit[k].comment.Id = c.id
         ELSE \E k \in 1..Len(orig) : orig[k].comment.Id = c.id

\* annotation x stands before annotation y in their document
Before(x, y) ==
    \/ x.pos # y.pos /\ PosLeq(x.pos, y.pos)
    \/ x.pos = y.pos /\ x.rank < y.rank

\* a new annotation with this text stands on line pos before (after = FALSE)
\* or after (after = TRUE) the annotation y of the edited document
NewBeside(text, pos, y, after, edit) ==
    \E k \in 1..Len(edit) :
       /\ edit[k].comment.Id = NoId
       /\ edit[k].comment.Text = text
       /\ edit[k].pos = pos
       /\ IF after THEN Before(y, edit[k]) ELSE Before(edit[k], y)

\* change c may stand before change d in a list in document order
InOrder(c, d, orig, edit) ==
    CASE IsDelete(c) ->
           /\ IsDelete(d)
           /\ Before(AnnotationOf(orig, c.id), AnnotationOf(orig, d.id))
      [] ~IsDelete(c) /\ IsDelete(d) -> TRUE
      [] IsCreate(c) /\ IsCreate(d) -> PosLeq(c.anchor, d.anchor)
      [] IsCreate(c) /\ IsUpdate(d) ->
           NewBeside(c.text, c.anchor, AnnotationOf(edit, d.id), FALSE, edit)
      [] IsUpdate(c) /\ IsCreate(d) ->
           NewBeside(d.text, d.anchor, AnnotationOf(edit, c.id), TRUE, edit)
      [] IsUpdate(c) /\ IsUpdate(d) ->
           Before(AnnotationOf(edit, c.id), AnnotationOf(edit, d.id))

\* the mixed scenario of the specification: two original annotations on two
\* lines, one kept unchanged, the other one's comment line removed, and one
\* new annotation without identity on a third line
MixedScenario ==
    LET orig == CommentsOf(review)
        edit == CommentsOf(edited)
        kept == SelectSeq(edit, LAMBDA e : e.comment.Id # NoId)
        new  == SelectSeq(edit, LAMBDA e : e.comment.Id = NoId)
    IN  /\ Len(orig) = 2 /\ orig[1].pos # orig[2].pos
        /\ Len(LinesOf(edited)) = Len(LinesOf(review))
        /\ Len(kept) = 1 /\ Len(new) = 1
        /\ \E k \in 1..2 : /\ orig[k].comment = kept[1].comment
                           /\ orig[k].pos = kept[1].pos
        /\ new[1].pos \notin {orig[1].pos, orig[2].pos}

\* what the mixed scenario is to yield: the creation, then the removal
MixedResult ==
    LET orig == CommentsOf(review)
        edit == CommentsOf(edited)
        new  == SelectSeq(edit, LAMBDA e : e.comment.Id = NoId)
        gone == SelectSeq(orig, LAMBDA o : Gone(o, edit))
    IN  << [text |-> new[1].comment.Text, anchor |-> new[1].pos],
           [id |-> gone[1].comment.Id, version |-> gone[1].comment.Version] >>

(***************************************************************************)
(* Properties.                                                             *)
(***************************************************************************)

\* C1: the changes Compare returned are applied in the order of the list:
\* the k-th remote call is made for the k-th change, every change at most
\* once, and no call is made for anything that is not in the list.
C1_AppliedInEmittedOrder ==
    /\ idx <= Len(changes)
    /\ Len(attempts) = idx
    /\ \A k \in 1..Len(attempts) : attempts[k].change = changes[k]
    /\ pc \notin {"applying", "done"} => Len(attempts) = 0
    /\ JustCompared => changes = Compare(review, edited)

\* C1 witness: a session that has applied two changes of different kinds
C1_Witness ==
    /\ pc = "done"
    /\ Len(attempts) >= 2
    /\ attempts[1].req.method # attempts[2].req.method

\* C2: when the editor run returned an error the session is over (fatal) and
\* no remote add, modify or delete has been or will be issued.
C2_EditorErrorAborts ==
    editorErr => /\ pc = "fatal_editor"
                 /\ Len(attempts) = 0
                 /\ Len(changes) = 0

\* C2 witness: the editor failed after the user had made edits that would
\* have produced changes
C2_Witness ==
    /\ editorErr
    /\ nedits > 0
    /\ ~ReadReview(savedText).err
    /\ Len(Compare(review, ReadReview(savedText).review)) > 0

\* C3: when re-reading the edited file fails the session ends fatally, no
\* change is applied, and the temporary file is still there, open, holding
\* the text the user left.
C3_ReadFailureKeepsFile ==
    /\ pc = "fatal_read" => /\ ReadReview(savedText).err
                            /\ Len(attempts) = 0
                            /\ tmpFile.exists /\ tmpFile.open
                            /\ tmpFile.content = savedText
    /\ JustCompared => ~ReadReview(savedText).err

\* C3 witness: the user removed every hunk header and the re-read failed
C3_Witness ==
    /\ pc = "fatal_read"
    /\ nedits > 0
    /\ Len(savedText) > 0
    /\ tmpFile.exists

\* C4: when the fetch fails or returns no diff the session ends before any
\* editing: no temporary file is created, no editor is started, nothing is
\* applied.
C4_NoEditingWithoutDiff ==
    (response.err \/ Len(response.Diffs) = 0) =>
        /\ pc \in {"start", "fatal_fetch", "exit_not_found"}
        /\ pc = "fatal_fetch" => response.err
        /\ pc = "exit_not_found" => ~response.err
        /\ ~tmpFile.created /\ ~tmpFile.exists
        /\ ~launched
        /\ nedits = 0
        /\ Len(attempts) = 0

\* C4 witness: the path is absent from the pull request
C4_Witness ==
    /\ pc = "exit_not_found"
    /\ ~response.err
    /\ Len(response.Diffs) = 0

\* C5: applying is best-effort: every failure is reported, what succeeded
\* before it stays in effect on the remote side, and the changes after it
\* are still attempted.
C5_BestEffortApply ==
    /\ critical = FailedIdx(attempts)
    /\ remote = Replay(InitialRemote(response), attempts)
    /\ pc = "done" => Len(attempts) = Len(changes)

\* C5 witness: a failure between two successes
C5_Witness ==
    /\ pc = "done"
    /\ Len(attempts) >= 3
    /\ attempts[1].ok /\ ~attempts[2].ok /\ attempts[3].ok
    /\ remote # InitialRemote(response)

\* C6: once applying a change has failed, the temporary review file is never
\* removed.
C6_FileKeptAfterFailedApply ==
    (\E k \in 1..Len(attempts) : ~attempts[k].ok) => tmpFile.exists

\* C7: Compare classifies by identity: one Delete (with the original's
\* version) per original annotation that is gone, one Create anchored to its
\* line per edited annotation without identity, one Update carrying the
\* original's version per edited annotation with a known identity and another
\* text, nothing for an unchanged one, and nothing else.
C7_ClassifiedByIdentity ==
    JustCompared =>
      LET orig == CommentsOf(review)
          edit == CommentsOf(edited)
      IN  /\ \A k \in 1..Len(orig) :
                Len(SelectSeq(changes, LAMBDA c :
                      /\ IsDelete(c)
                      /\ c.id = orig[k].comment.Id
                      /\ c.version = orig[k].comment.Version))
                  = IF Gone(orig[k], edit) THEN 1 ELSE 0
          /\ \A k \in 1..Len(edit) :
                edit[k].comment.Id = NoId =>
                  Len(SelectSeq(changes, LAMBDA c :
                        /\ IsCreate(c)
                        /\ c.text = edit[k].comment.Text
                        /\ c.anchor = edit[k].pos))
                    = Len(SelectSeq(edit, LAMBDA e :
                            /\ e.comment.Id = NoId
                            /\ e.comment.Text = edit[k].comment.Text
                            /\ e.pos = edit[k].pos))
          /\ \A k \in 1..Len(edit) :
                edit[k].comment.Id # NoId =>
                  /\ Len(SelectSeq(changes, LAMBDA c :
                           IsUpdate(c) /\ c.id = edit[k].comment.Id))
                       = IF Changed(edit[k], orig) THEN 1 ELSE 0
                  /\ \A j \in 1..Len(changes) :
                        (IsUpdate(changes[j]) /\ changes[j].id = edit[k].comment.Id) =>
                           /\ changes[j].text = edit[k].comment.Text
                           /\ changes[j].version =
                                OriginalVersion(orig, edit[k].comment.Id)
          /\ Len(changes) =
                Len(SelectSeq(orig, LAMBDA o : Gone(o, edit)))
              + Len(SelectSeq(edit, LAMBDA e : e.comment.Id = NoId))
              + Len(SelectSeq(edit, LAMBDA e : Changed(e, orig)))

\* C7 witness: an Update next to a Delete of an annotation whose line is no
\* longer in the edited document
C7_Witness ==
    /\ pc = "applying" /\ idx = 0
    /\ \E j \in 1..Len(changes) : IsUpdate(changes[j])
    /\ \E j \in 1..Len(changes) :
          /\ IsDelete(changes[j])
          /\ \A k \in 1..Len(LinesOf(edited)) :
                LinesOf(edited)[k].pos #
                  PosOfChange(changes[j], CommentsOf(review), CommentsOf(edited))

\* C8: a no-op edit produces no change: comparing a fetched review with the
\* re-read of its own rendering yields the empty list, and a session whose
\* file is saved as rendered ends without any remote call.
C8_NoOpEditNoChanges ==
    /\ (pc = "editing" /\ nedits = 0) =>
          /\ ~ReadReview(WriteReview(review)).err
          /\ Len(Compare(review, ReadReview(WriteReview(review)).review)) = 0
    /\ (JustRead /\ savedText = WriteReview(review)) =>
          /\ pc = "exit_no_changes"
          /\ Len(changes) = 0
          /\ Len(attempts) = 0

\* C8 witness: a review with two annotations was saved as rendered
C8_Witness ==
    /\ pc = "exit_no_changes"
    /\ savedText = WriteReview(review)
    /\ Len(CommentsOf(review)) >= 2

\* C9: the list is in document order: the changes to annotations of the
\* edited document (Create, Update) stand in that document's order of hunk,
\* line and annotation; the removals, whose annotations are in the original
\* document only, stand in the original's order and follow them; and the
\* mixed scenario yields exactly the creation on line 3 followed by the
\* removal of I2, with nothing for I1.
C9_InDocumentOrder ==
    JustCompared =>
      LET orig == CommentsOf(review)
          edit == CommentsOf(edited)
      IN  /\ MixedScenario => changes = MixedResult
          /\ \A a \in 1..Len(changes) : RefersTo(changes[a], orig, edit)
          /\ \A a \in 1..Len(changes) : \A b \in (a + 1)..Len(changes) :
                InOrder(changes[a], changes[b], orig, edit)

\* C9 witness: the mixed scenario, the new annotation on a line after the
\* line of the removed one
C9_Witness ==
    /\ pc = "applying" /\ idx = 0
    /\ MixedScenario
    /\ changes = MixedResult
    /\ ~PosLeq(changes[1].anchor,
               PosOfChange(changes[2], CommentsOf(review), CommentsOf(edited)))

\* C10: ApplyChange issues one request per change, chosen by the keys of the
\* change: no "id" -> POST of the change; "id" and "text" -> PUT to that id
\* with the version as query; "id" alone -> DELETE of that id with the
\* version as query; the panic behind the if/else is never reached.
C10_RequestByKeys ==
    /\ Len(attempts) = idx
    /\ \A k \in 1..Len(attempts) :
          LET c == attempts[k].change
              r == attempts[k].req
          IN  /\ r.method \in {"POST", "PUT", "DELETE"}
              /\ r.resource = "comments"
              /\ ("id" \notin DOMAIN c) =>
                    /\ r.method = "POST"
                    /\ r.body = c
                    /\ "query" \notin DOMAIN r
                    /\ "version" \notin DOMAIN c
              /\ ("id" \in DOMAIN c /\ "text" \in DOMAIN c) =>
                    /\ r.method = "PUT"
                    /\ r.id = c.id
                    /\ r.query = [version |-> c.version]
                    /\ r.body = c
              /\ ("id" \in DOMAIN c /\ "text" \notin DOMAIN c) =>
                    /\ r.method = "DELETE"
                    /\ r.id = c.id
                    /\ r.query = [version |-> c.version]
                    /\ "body" \notin DOMAIN r
    /\ pc = "panic" => ~tmpFile.created

\* C10 witness: a creation and a removal have been sent
C10_Witness ==
    /\ \E k \in 1..Len(attempts) : attempts[k].req.method = "POST"
    /\ \E k \in 1..Len(attempts) :
          /\ attempts[k].req.method = "DELETE"
          /\ attempts[k].req.query.version = attempts[k].change.version
          /\ attempts[k].req.query.version # "<nil>"

====
